---- MODULE Spec2Model ----
(***************************************************************************)
(* Gesture recognition of better-nav-xr: the shared gesture lock           *)
(* (gestureAtom + useGestureManager), the neutral-pose gate                *)
(* (useNeutralHandPos) and the four-direction swipe detector               *)
(* (useSwipeGesture), driven by the frame loop and by React renders.       *)
(*                                                                         *)
(* Lengths are multiples of one grid step, times are multiples of 0.1 s.   *)
(* A hook closure reads the values of the render that created it: the      *)
(* variables gesture, joints and isNeutral are that render's values, atom  *)
(* and neutralState are the values the setters have written since.         *)
(***************************************************************************)
EXTENDS Integers, Sequences, FiniteSets, TLC

VARIABLES
    clock,          \* last value state.clock.getElapsedTime() returned, -1 before the first call
    atom,           \* gestureAtom: the value in the jotai store
    gesture,        \* `gesture` of useAtom(gestureAtom) as of the last committed render
    joints,         \* `joints` of the XRJointsProvider context as of the last committed render
    jointTransforms, \* what getJointsFromXRFrame returned in the provider's last pose callback
    neutralState,   \* value last given to setIsNeutral
    thumbDistance,  \* value last given to setThumbDistance
    isNeutral,      \* `isNeutral` as of the last committed render
    cfg,            \* the arguments useSwipeGesture was called with
    track,          \* per detector: the five refs of useSwipeGesture
    currentTime,    \* per detector: the currentTime ref of its useGestureManager
    out,            \* per detector: what its frame callback did in the last tick
    lastEventTime,  \* time of the most recent callback invocation, -1 if none
    inputSources,   \* session.inputSources as the last pose callback saw it
    session,        \* `session` of XRJointsProvider as of its last effect run
    originReferenceSpace, \* `originReferenceSpace` of XRJointsProvider, likewise
    mounted,        \* XRJointsProvider is mounted
    pending,        \* requested animation-frame callbacks, per captured <<session, space>>
    lastChain       \* the <<session, space>> captured by the pose callback that ran last

vars == <<clock, atom, gesture, joints, jointTransforms, neutralState, thumbDistance, isNeutral, cfg,
          track, currentTime, out, lastEventTime, inputSources, session,
          originReferenceSpace, mounted, pending, lastChain>>

\* the variables of XRJointsProvider's session bookkeeping
provider == <<inputSources, session, originReferenceSpace, mounted, pending, lastChain>>

-----------------------------------------------------------------------------
(* Bounds of the model *)

MaxTime == 5
HookMaxTime == 3
MaxDt == 2
MaxX == 2
MaxY == 1
MaxGap == 3
MaxSpeed == 3
ZigMaxTime == 5
RunMaxTime == 8
LegacyMaxTime == 4
MaxSessions == 1
MaxSpaces == 2
MaxSources == 2
MaxPose == 2
MaxPending == 2
MaxBlockDuration == 3
MaxShift == 2

(* Program constants *)

BlockDuration == 2
NeutralThreshold == 1

-----------------------------------------------------------------------------
(* Values *)

Detectors == {"A", "B"}
DetectorOrder == <<"A", "B">>
Directions == {"left", "right", "up", "down"}

NullPos == <<>>
NullTime == -1
NullDir == "null"
NullJoints == <<>>

\* which of onLeft/onRight/onUp/onDown each detector was given: every callback
\* of SwipeCallbacks is optional, A has no onDown and B has all four
Callbacks == [d \in Detectors |-> IF d = "A" THEN Directions \ {"down"} ELSE Directions]

Abs(n) == IF n < 0 THEN -n ELSE n

\* JavaScript truthiness of a number | null
Truthy(t) == t # NullTime /\ t # 0

\* JavaScript `a || b` on a number | null
OrElse(a, b) == IF Truthy(a) THEN a ELSE b

\* `gestureStartPosition.current?.x || 0`
CoordOrZero(p, axis) == IF p = NullPos THEN 0 ELSE p[axis]

\* a joint frame: <<Middle_Tip.x, Middle_Tip.y, Index_Tip.x - Thumb_Tip.x>>
Frames == (0..MaxX) \X (0..MaxY) \X (0..MaxGap)
ZeroFrame == <<0, 0, 0>>

MiddleTip(j) == <<j[1], j[2]>>
ThumbTip(j) == <<0, 0, 0>>
IndexTip(j) == <<j[3], 0, 0>>

\* square of Vector3.distanceTo
DistanceSq(a, b) ==
    (a[1] - b[1]) * (a[1] - b[1]) + (a[2] - b[2]) * (a[2] - b[2])
        + (a[3] - b[3]) * (a[3] - b[3])

InitialGesture ==
    [neutral |-> FALSE, lastGestureTime |-> 0, isBlocked |-> FALSE, blockDuration |-> -1]

ResetTrack ==
    [previousPosition |-> NullPos, previousTime |-> NullTime,
     gestureStartPosition |-> NullPos, gestureStartTime |-> NullTime,
     currentDirection |-> NullDir]

\* out[d]: branch is the path the callback took, called what its triggerGesture()
\* returned ("none": not called), fired the callback it invoked, calls the
\* number of callback invocations, locked the store's isBlocked when the
\* callback started
NoOut == [branch |-> "idle", called |-> "none", fired |-> "none", calls |-> 0,
          locked |-> FALSE]

\* useSwipeGesture called with thresholds of 2 and 1 steps, 0.2 and 0.1 s
SmallCfg ==
    [horizontalThreshold |-> 2, verticalThreshold |-> 1,
     horizontalTimeThreshold |-> 2, verticalTimeThreshold |-> 1]

\* useSwipeGesture called with its defaults, one step being 0.01 m
DefaultCfg ==
    [horizontalThreshold |-> 6, verticalThreshold |-> 5,
     horizontalTimeThreshold |-> 7, verticalTimeThreshold |-> 5]

-----------------------------------------------------------------------------
(* useNeutralHandPos *)

\* checkNeutralPosition that takes the boundary as not neutral
checkNeutralPosition_Strict(j, old) ==
    IF j = NullJoints
    THEN FALSE
    ELSE DistanceSq(ThumbTip(j), IndexTip(j)) < NeutralThreshold * NeutralThreshold

\* what checkNeutralPosition gives to setIsNeutral
checkNeutralPosition(j, old) ==
    IF j = NullJoints
    THEN FALSE
    ELSE DistanceSq(ThumbTip(j), IndexTip(j)) <= NeutralThreshold * NeutralThreshold

\* Vector3.distanceTo, for points whose distance is a whole number of steps
Distance(a, b) == CHOOSE r \in 0..DistanceSq(a, b) : r * r = DistanceSq(a, b)

\* ThumbDistanceOf that clears the distance when there are no joints
ThumbDistanceOf_ClearsOnLoss(j, old) ==
    IF j = NullJoints THEN 0 ELSE Distance(ThumbTip(j), IndexTip(j))

\* the thumbDistance state after checkNeutralPosition(j): setThumbDistance is
\* not reached when there are no joints
ThumbDistanceOf(j, old) ==
    IF j = NullJoints THEN old ELSE Distance(ThumbTip(j), IndexTip(j))

-----------------------------------------------------------------------------
(* useGestureManager *)

\* variant of ManagerFrame that unblocks only after more than blockDuration
ManagerFrame_StrictExpiry(g, a, now, blockDuration) ==
    IF g.isBlocked /\ now - g.lastGestureTime > blockDuration
    THEN [a EXCEPT !.isBlocked = FALSE]
    ELSE a

\* the useFrame callback: g is the gesture of the closure, a the store value
ManagerFrame(g, a, now, blockDuration) ==
    IF g.isBlocked /\ now - g.lastGestureTime >= blockDuration
    THEN [a EXCEPT !.isBlocked = FALSE]
    ELSE a

\* what triggerGesture() returns
TriggerResult(g) == ~g.isBlocked

\* the setGesture of a triggerGesture() that returned true
TriggerUpdate(a, ct, blockDuration) ==
    [a EXCEPT !.isBlocked = TRUE, !.lastGestureTime = ct, !.blockDuration = blockDuration]

Max(a, b) == IF a >= b THEN a ELSE b

\* remainingBlockTime without the Math.max
remainingBlockTime_Unclamped(g, ct, blockDuration) ==
    IF g.isBlocked THEN blockDuration - (ct - g.lastGestureTime) ELSE 0

\* the remainingBlockTime a render of the hook returns: g is the gesture it
\* renders with, ct its currentTime ref
remainingBlockTime(g, ct, blockDuration) ==
    IF g.isBlocked THEN Max(0, blockDuration - (ct - g.lastGestureTime)) ELSE 0

-----------------------------------------------------------------------------
(* useSwipeGesture: the useFrame callback *)

\* variant of Reanchor that keeps currentDirection
Reanchor_KeepsDirection(t, cur, now) ==
    [t EXCEPT !.gestureStartPosition = cur, !.gestureStartTime = now]

\* variant of Reanchor that sets the position and leaves the start time
Reanchor_PositionOnly(t, cur, now) ==
    [t EXCEPT !.gestureStartPosition = cur, !.currentDirection = NullDir]

Reanchor(t, cur, now) ==
    [t EXCEPT !.gestureStartPosition = cur, !.gestureStartTime = now,
              !.currentDirection = NullDir]

\* DirectionBlock with `totalDistance > threshold`
DirectionBlock_StrictDistance(t, cand, axis, thr, timeThr, cur, now, g, cb) ==
    IF t.currentDirection = NullDir \/ t.currentDirection = cand
    THEN LET t1 == [t EXCEPT !.currentDirection = cand]
             totalDistance == Abs(cur[axis] - CoordOrZero(t.gestureStartPosition, axis))
             totalTime == now - OrElse(t.gestureStartTime, now)
         IN  IF totalDistance > thr /\ totalTime <= timeThr /\ cand \in cb
             THEN IF TriggerResult(g)
                  THEN [track |-> Reanchor(t1, cur, now), called |-> "true",
                        fired |-> cand, calls |-> 1]
                  ELSE [track |-> t1, called |-> "false", fired |-> "none", calls |-> 0]
             ELSE [track |-> t1, called |-> "none", fired |-> "none", calls |-> 0]
    ELSE [track |-> t, called |-> "none", fired |-> "none", calls |-> 0]

\* DirectionBlock that restarts the window when triggerGesture() returns false
DirectionBlock_ReanchorOnFail(t, cand, axis, thr, timeThr, cur, now, g, cb) ==
    IF t.currentDirection = NullDir \/ t.currentDirection = cand
    THEN LET t1 == [t EXCEPT !.currentDirection = cand]
             totalDistance == Abs(cur[axis] - CoordOrZero(t.gestureStartPosition, axis))
             totalTime == now - OrElse(t.gestureStartTime, now)
         IN  IF totalDistance >= thr /\ totalTime <= timeThr /\ cand \in cb
             THEN IF TriggerResult(g)
                  THEN [track |-> Reanchor(t1, cur, now), called |-> "true",
                        fired |-> cand, calls |-> 1]
                  ELSE [track |-> Reanchor(t1, cur, now), called |-> "false",
                        fired |-> "none", calls |-> 0]
             ELSE [track |-> t1, called |-> "none", fired |-> "none", calls |-> 0]
    ELSE [track |-> t, called |-> "none", fired |-> "none", calls |-> 0]

\* DirectionBlock that invokes the callback before asking the lock and again
\* when triggerGesture() returns true
DirectionBlock_CallsTwice(t, cand, axis, thr, timeThr, cur, now, g, cb) ==
    IF t.currentDirection = NullDir \/ t.currentDirection = cand
    THEN LET t1 == [t EXCEPT !.currentDirection = cand]
             totalDistance == Abs(cur[axis] - CoordOrZero(t.gestureStartPosition, axis))
             totalTime == now - OrElse(t.gestureStartTime, now)
         IN  IF totalDistance >= thr /\ totalTime <= timeThr /\ cand \in cb
             THEN IF TriggerResult(g)
                  THEN [track |-> Reanchor(t1, cur, now), called |-> "true",
                        fired |-> cand, calls |-> 2]
                  ELSE [track |-> t1, called |-> "false", fired |-> cand, calls |-> 1]
             ELSE [track |-> t1, called |-> "none", fired |-> "none", calls |-> 0]
    ELSE [track |-> t, called |-> "none", fired |-> "none", calls |-> 0]

\* DirectionBlock that ignores what triggerGesture() returned
DirectionBlock_FiresOnFalse(t, cand, axis, thr, timeThr, cur, now, g, cb) ==
    IF t.currentDirection = NullDir \/ t.currentDirection = cand
    THEN LET t1 == [t EXCEPT !.currentDirection = cand]
             totalDistance == Abs(cur[axis] - CoordOrZero(t.gestureStartPosition, axis))
             totalTime == now - OrElse(t.gestureStartTime, now)
         IN  IF totalDistance >= thr /\ totalTime <= timeThr /\ cand \in cb
             THEN [track |-> Reanchor(t1, cur, now),
                   called |-> IF TriggerResult(g) THEN "true" ELSE "false",
                   fired |-> cand, calls |-> 1]
             ELSE [track |-> t1, called |-> "none", fired |-> "none", calls |-> 0]
    ELSE [track |-> t, called |-> "none", fired |-> "none", calls |-> 0]

\* variant of DirectionBlock without the currentDirection guard
DirectionBlock_NoLockGuard(t, cand, axis, thr, timeThr, cur, now, g, cb) ==
    LET t1 == [t EXCEPT !.currentDirection = cand]
        totalDistance == Abs(cur[axis] - CoordOrZero(t.gestureStartPosition, axis))
        totalTime == now - OrElse(t.gestureStartTime, now)
    IN  IF totalDistance >= thr /\ totalTime <= timeThr /\ cand \in cb
        THEN IF TriggerResult(g)
             THEN [track |-> Reanchor(t1, cur, now), called |-> "true", fired |-> cand, calls |-> 1]
             ELSE [track |-> t1, called |-> "false", fired |-> "none", calls |-> 0]
        ELSE [track |-> t1, called |-> "none", fired |-> "none", calls |-> 0]

\* variant of DirectionBlock that calls triggerGesture before looking at the
\* callback
DirectionBlock_TriggersUnregistered(t, cand, axis, thr, timeThr, cur, now, g, cb) ==
    IF t.currentDirection = NullDir \/ t.currentDirection = cand
    THEN LET t1 == [t EXCEPT !.currentDirection = cand]
             totalDistance == Abs(cur[axis] - CoordOrZero(t.gestureStartPosition, axis))
             totalTime == now - OrElse(t.gestureStartTime, now)
         IN  IF totalDistance >= thr /\ totalTime <= timeThr
             THEN IF TriggerResult(g)
                  THEN [track |-> Reanchor(t1, cur, now), called |-> "true",
                        fired |-> IF cand \in cb THEN cand ELSE "none",
                        calls |-> IF cand \in cb THEN 1 ELSE 0]
                  ELSE [track |-> t1, called |-> "false", fired |-> "none", calls |-> 0]
             ELSE [track |-> t1, called |-> "none", fired |-> "none", calls |-> 0]
    ELSE [track |-> t, called |-> "none", fired |-> "none", calls |-> 0]

\* one of the four `if (deltaX < 0) { ... }` blocks: cand is its direction,
\* axis the coordinate it measures, thr and timeThr its thresholds
DirectionBlock(t, cand, axis, thr, timeThr, cur, now, g, cb) ==
    IF t.currentDirection = NullDir \/ t.currentDirection = cand
    THEN LET t1 == [t EXCEPT !.currentDirection = cand]
             totalDistance == Abs(cur[axis] - CoordOrZero(t.gestureStartPosition, axis))
             totalTime == now - OrElse(t.gestureStartTime, now)
         IN  IF totalDistance >= thr /\ totalTime <= timeThr /\ cand \in cb
             THEN IF TriggerResult(g)
                  THEN [track |-> Reanchor(t1, cur, now), called |-> "true",
                        fired |-> cand, calls |-> 1]
                  ELSE [track |-> t1, called |-> "false", fired |-> "none", calls |-> 0]
             ELSE [track |-> t1, called |-> "none", fired |-> "none", calls |-> 0]
    ELSE [track |-> t, called |-> "none", fired |-> "none", calls |-> 0]

\* Reversal that only clears the direction
Reversal_KeepsAnchor(t, neg, pos, delta, cur, now) ==
    IF (t.currentDirection = neg /\ delta > 0) \/ (t.currentDirection = pos /\ delta < 0)
    THEN [t EXCEPT !.currentDirection = NullDir]
    ELSE t

\* Reversal that puts the window back to its uninitialised state
Reversal_ClearsWindow(t, neg, pos, delta, cur, now) ==
    IF (t.currentDirection = neg /\ delta > 0) \/ (t.currentDirection = pos /\ delta < 0)
    THEN [t EXCEPT !.gestureStartPosition = NullPos, !.gestureStartTime = NullTime,
                   !.currentDirection = NullDir]
    ELSE t

\* `if (movement changes direction) reset tracking`
Reversal(t, neg, pos, delta, cur, now) ==
    IF (t.currentDirection = neg /\ delta > 0) \/ (t.currentDirection = pos /\ delta < 0)
    THEN Reanchor(t, cur, now)
    ELSE t

\* variant of Classify that takes the horizontal branch on a tie
Classify_TieIsHorizontal(t, c, cur, now, g, cb) ==
    LET deltaX == cur[1] - t.previousPosition[1]
        deltaY == cur[2] - t.previousPosition[2]
        none == [track |-> t, called |-> "none", fired |-> "none", calls |-> 0]
    IN  IF Abs(deltaX) >= Abs(deltaY)
        THEN LET r == IF deltaX < 0
                      THEN DirectionBlock(t, "left", 1, c.horizontalThreshold,
                                          c.horizontalTimeThreshold, cur, now, g, cb)
                      ELSE IF deltaX > 0
                      THEN DirectionBlock(t, "right", 1, c.horizontalThreshold,
                                          c.horizontalTimeThreshold, cur, now, g, cb)
                      ELSE none
             IN  [r EXCEPT !.track = Reversal(r.track, "left", "right", deltaX, cur, now)]
                     @@ [branch |-> "horizontal"]
        ELSE LET r == IF deltaY > 0
                      THEN DirectionBlock(t, "up", 2, c.verticalThreshold,
                                          c.verticalTimeThreshold, cur, now, g, cb)
                      ELSE DirectionBlock(t, "down", 2, c.verticalThreshold,
                                          c.verticalTimeThreshold, cur, now, g, cb)
             IN  [r EXCEPT !.track = Reversal(r.track, "down", "up", deltaY, cur, now)]
                     @@ [branch |-> "vertical"]

\* variant of Classify with the vertical directions exchanged
Classify_UpDownSwapped(t, c, cur, now, g, cb) ==
    LET deltaX == cur[1] - t.previousPosition[1]
        deltaY == cur[2] - t.previousPosition[2]
        none == [track |-> t, called |-> "none", fired |-> "none", calls |-> 0]
    IN  IF Abs(deltaX) > Abs(deltaY)
        THEN LET r == IF deltaX < 0
                      THEN DirectionBlock(t, "left", 1, c.horizontalThreshold,
                                          c.horizontalTimeThreshold, cur, now, g, cb)
                      ELSE IF deltaX > 0
                      THEN DirectionBlock(t, "right", 1, c.horizontalThreshold,
                                          c.horizontalTimeThreshold, cur, now, g, cb)
                      ELSE none
             IN  [r EXCEPT !.track = Reversal(r.track, "left", "right", deltaX, cur, now)]
                     @@ [branch |-> "horizontal"]
        ELSE IF Abs(deltaY) > Abs(deltaX)
        THEN LET r == IF deltaY < 0
                      THEN DirectionBlock(t, "up", 2, c.verticalThreshold,
                                          c.verticalTimeThreshold, cur, now, g, cb)
                      ELSE IF deltaY > 0
                      THEN DirectionBlock(t, "down", 2, c.verticalThreshold,
                                          c.verticalTimeThreshold, cur, now, g, cb)
                      ELSE none
             IN  [r EXCEPT !.track = Reversal(r.track, "up", "down", deltaY, cur, now)]
                     @@ [branch |-> "vertical"]
        ELSE none @@ [branch |-> "tie"]

Classify(t, c, cur, now, g, cb) ==
    LET deltaX == cur[1] - t.previousPosition[1]
        deltaY == cur[2] - t.previousPosition[2]
        absDeltaX == Abs(deltaX)
        absDeltaY == Abs(deltaY)
        none == [track |-> t, called |-> "none", fired |-> "none", calls |-> 0]
    IN  IF absDeltaX > absDeltaY
        THEN LET r == IF deltaX < 0
                      THEN DirectionBlock(t, "left", 1, c.horizontalThreshold,
                                          c.horizontalTimeThreshold, cur, now, g, cb)
                      ELSE IF deltaX > 0
                      THEN DirectionBlock(t, "right", 1, c.horizontalThreshold,
                                          c.horizontalTimeThreshold, cur, now, g, cb)
                      ELSE none
             IN  [r EXCEPT !.track = Reversal(r.track, "left", "right", deltaX, cur, now)]
                     @@ [branch |-> "horizontal"]
        ELSE IF absDeltaY > absDeltaX
        THEN LET r == IF deltaY > 0
                      THEN DirectionBlock(t, "up", 2, c.verticalThreshold,
                                          c.verticalTimeThreshold, cur, now, g, cb)
                      ELSE IF deltaY < 0
                      THEN DirectionBlock(t, "down", 2, c.verticalThreshold,
                                          c.verticalTimeThreshold, cur, now, g, cb)
                      ELSE none
             IN  [r EXCEPT !.track = Reversal(r.track, "down", "up", deltaY, cur, now)]
                     @@ [branch |-> "vertical"]
        ELSE none @@ [branch |-> "tie"]

\* SwipeFrame that keeps tracking while the hand is not neutral
SwipeFrame_NoNeutralReset(t, c, j, n, now, g, cb) ==
    IF j = NullJoints
    THEN [track |-> ResetTrack, called |-> "none", fired |-> "none", calls |-> 0,
          branch |-> "nojoints"]
    ELSE LET cur == MiddleTip(j)
             t0 == IF t.gestureStartPosition = NullPos THEN Reanchor(t, cur, now) ELSE t
             r == IF t0.previousPosition # NullPos /\ Truthy(t0.previousTime)
                  THEN Classify(t0, c, cur, now, g, cb)
                  ELSE [track |-> t0, called |-> "none", fired |-> "none", calls |-> 0,
                        branch |-> "bootstrap"]
         IN  [r EXCEPT !.track = [r.track EXCEPT !.previousPosition = cur,
                                                 !.previousTime = now]]

\* variant of SwipeFrame that advances the previous sample only in frames that
\* computed a delta
SwipeFrame_UpdatesAfterDelta(t, c, j, n, now, g, cb) ==
    IF j = NullJoints
    THEN [track |-> ResetTrack, called |-> "none", fired |-> "none", calls |-> 0,
          branch |-> "nojoints"]
    ELSE IF ~n
    THEN [track |-> ResetTrack, called |-> "none", fired |-> "none", calls |-> 0,
          branch |-> "notneutral"]
    ELSE LET cur == MiddleTip(j)
             t0 == IF t.gestureStartPosition = NullPos THEN Reanchor(t, cur, now) ELSE t
         IN  IF t0.previousPosition # NullPos /\ Truthy(t0.previousTime)
             THEN LET r == Classify(t0, c, cur, now, g, cb)
                  IN  [r EXCEPT !.track = [r.track EXCEPT !.previousPosition = cur,
                                                          !.previousTime = now]]
             ELSE [track |-> t0, called |-> "none", fired |-> "none", calls |-> 0,
                   branch |-> "bootstrap"]

\* variant of SwipeFrame that does not anchor a missing window
SwipeFrame_NoBootstrap(t, c, j, n, now, g, cb) ==
    IF j = NullJoints
    THEN [track |-> ResetTrack, called |-> "none", fired |-> "none", calls |-> 0,
          branch |-> "nojoints"]
    ELSE IF ~n
    THEN [track |-> ResetTrack, called |-> "none", fired |-> "none", calls |-> 0,
          branch |-> "notneutral"]
    ELSE LET cur == MiddleTip(j)
             r == IF t.previousPosition # NullPos /\ Truthy(t.previousTime)
                  THEN Classify(t, c, cur, now, g, cb)
                  ELSE [track |-> t, called |-> "none", fired |-> "none", calls |-> 0,
                        branch |-> "bootstrap"]
         IN  [r EXCEPT !.track = [r.track EXCEPT !.previousPosition = cur,
                                                 !.previousTime = now]]

\* the whole callback: t the refs, j and n the closure's joints and isNeutral,
\* now the elapsed time it reads, g the closure's gesture, cb its callbacks
SwipeFrame(t, c, j, n, now, g, cb) ==
    IF j = NullJoints
    THEN [track |-> ResetTrack, called |-> "none", fired |-> "none", calls |-> 0,
          branch |-> "nojoints"]
    ELSE IF ~n
    THEN [track |-> ResetTrack, called |-> "none", fired |-> "none", calls |-> 0,
          branch |-> "notneutral"]
    ELSE LET cur == MiddleTip(j)
             t0 == IF t.gestureStartPosition = NullPos THEN Reanchor(t, cur, now) ELSE t
             r == IF t0.previousPosition # NullPos /\ Truthy(t0.previousTime)
                  THEN Classify(t0, c, cur, now, g, cb)
                  ELSE [track |-> t0, called |-> "none", fired |-> "none", calls |-> 0,
                        branch |-> "bootstrap"]
         IN  [r EXCEPT !.track = [r.track EXCEPT !.previousPosition = cur,
                                                 !.previousTime = now]]

-----------------------------------------------------------------------------
(* One frame of the render loop: every useFrame callback, in subscription     *)
(* order (a detector's manager before the detector itself).  All callbacks    *)
(* of one frame are given the same elapsed time, now.                         *)

RECURSIVE RunFrame(_, _, _, _, _, _)
RunFrame(i, acc, j, n, g, now) ==
    IF i > Len(DetectorOrder)
    THEN acc
    ELSE LET d == DetectorOrder[i]
             a1 == ManagerFrame(g, acc.atom, now, BlockDuration)
             r == SwipeFrame(acc.track[d], cfg, j, n, now, g, Callbacks[d])
             a2 == IF r.called = "true" THEN TriggerUpdate(a1, now, BlockDuration) ELSE a1
         IN  RunFrame(i + 1,
                 [atom |-> a2,
                  track |-> [acc.track EXCEPT ![d] = r.track],
                  currentTime |-> [acc.currentTime EXCEPT ![d] = now],
                  out |-> [acc.out EXCEPT ![d] =
                              [branch |-> r.branch, called |-> r.called, fired |-> r.fired,
                               calls |-> r.calls,
                               locked |-> a1.isBlocked]],
                  lastEventTime |-> IF r.fired # "none" THEN now ELSE acc.lastEventTime],
                 j, n, g, now)

\* the frame at elapsed time now, run by closures over j, n and g
TickWith(j, n, g, now) ==
    LET r == RunFrame(1, [atom |-> atom, track |-> track, currentTime |-> currentTime,
                          out |-> out, lastEventTime |-> lastEventTime], j, n, g, now)
    IN  /\ clock' = now
        /\ atom' = r.atom
        /\ track' = r.track
        /\ currentTime' = r.currentTime
        /\ out' = r.out
        /\ lastEventTime' = r.lastEventTime

Tick ==
    \E dt \in 1..MaxDt :
        /\ clock + dt <= MaxTime
        /\ TickWith(joints, isNeutral, gesture, clock + dt)
        /\ UNCHANGED <<gesture, joints, jointTransforms, neutralState, thumbDistance,
                       isNeutral, cfg>>
        /\ UNCHANGED provider

-----
(* React *)

\* A commit and the passive effects it schedules.  React runs the effects of a
\* commit before it renders again and no frame callback reads what they write,
\* so they are taken in the same step.  j is the joints value being rendered.
Commit(j) ==
    /\ gesture' = atom
    /\ joints' = j
    /\ isNeutral' = neutralState
    /\ neutralState' = checkNeutralPosition(j, neutralState)
    /\ thumbDistance' = ThumbDistanceOf(j, thumbDistance)
    /\ atom' = [atom EXCEPT !.neutral = neutralState]

\* the frames the pose source delivers to the composed system: the hand moves
\* along X
PoseFrames == {f \in Frames : f[2] = 0}

\* XRJointsProvider: the pose callback got a frame and published it
PoseFrame ==
    \E f \in PoseFrames :
        /\ Commit(f)
        /\ jointTransforms' = f
        /\ UNCHANGED <<clock, cfg, track, currentTime, out, lastEventTime>>
        /\ UNCHANGED provider

\* a re-render caused by setGesture or setIsNeutral
Render ==
    /\ Commit(joints)
    /\ UNCHANGED <<jointTransforms, clock, cfg, track, currentTime, out, lastEventTime>>
    /\ UNCHANGED provider

-----------------------------------------------------------------------------

(* The hooks on their own: each frame the context hands the closures any     *)
(* joints value (a frame or null), any isNeutral and a gesture with any       *)
(* isBlocked.                                                                 *)

HookFrames == {f \in Frames : f[3] = NeutralThreshold} \cup {NullJoints}

HookFrame ==
    \E j \in HookFrames, n \in BOOLEAN, b \in BOOLEAN, dt \in 1..MaxDt :
        LET g == [atom EXCEPT !.isBlocked = b]
        IN  /\ clock + dt <= HookMaxTime
            /\ joints' = j
            /\ jointTransforms' = j
            /\ isNeutral' = n
            /\ neutralState' = n
            /\ thumbDistance' = ThumbDistanceOf(j, thumbDistance)
            /\ gesture' = g
            /\ TickWith(j, n, g, clock + dt)
            /\ UNCHANGED cfg
            /\ UNCHANGED provider

-----------------------------------------------------------------------------

(* XRJointsProvider and getJointsFromXRFrame *)

\* `undefined` for a session or a reference space; live ones are numbered
Undefined == 0
Sessions == 1..MaxSessions
Spaces == 1..MaxSpaces
ChainKeys == Sessions \X Spaces
NoChain == <<Undefined, Undefined>>

\* an input source is <<kind, pose>>: a controller (no `hand`), a hand whose
\* poses fillPoses fills (Middle_Tip at x = pose), or a hand for which
\* fillPoses returns false
SourceKinds ==
    {<<"controller", 0>>, <<"handLost", 0>>} \cup {<<"hand", p>> : p \in 0..MaxPose}
NullSources == << <<"null", 0>> >>
SourceLists == UNION {[1..n -> SourceKinds] : n \in 0..MaxSources}
Inputs == SourceLists \cup {NullSources}

\* the loop of getJointsFromXRFrame from input source i on: every hand source
\* assigns gotJoints and, when filled, the buffer
RECURSIVE FillPoses(_, _, _)
FillPoses(src, i, acc) ==
    IF i > Len(src) THEN acc
    ELSE FillPoses(src, i + 1,
            IF src[i][1] = "hand"
            THEN [gotJoints |-> TRUE, buffer |-> <<src[i][2], 0, 0>>]
            ELSE IF src[i][1] = "handLost"
            THEN [acc EXCEPT !.gotJoints = FALSE]
            ELSE acc)

getJointsFromXRFrame(src) ==
    IF src = NullSources THEN NullJoints
    ELSE LET r == FillPoses(src, 1, [gotJoints |-> FALSE, buffer |-> ZeroFrame])
         IN  IF r.gotJoints THEN r.buffer ELSE NullJoints

ProviderInit ==
    /\ inputSources = NullSources
    /\ session = Undefined
    /\ originReferenceSpace = Undefined
    /\ mounted = TRUE
    /\ pending = [k \in ChainKeys |-> 0]
    /\ lastChain = NoChain

Init ==
    /\ clock = -1
    /\ atom = InitialGesture
    /\ gesture = InitialGesture
    /\ joints = ZeroFrame
    /\ jointTransforms = ZeroFrame
    /\ neutralState = checkNeutralPosition(ZeroFrame, FALSE)
    /\ thumbDistance = ThumbDistanceOf(ZeroFrame, 0)
    /\ isNeutral = FALSE
    /\ cfg = SmallCfg
    /\ track = [d \in Detectors |-> ResetTrack]
    /\ currentTime = [d \in Detectors |-> 0]
    /\ out = [d \in Detectors |-> NoOut]
    /\ lastEventTime = -1
    /\ ProviderInit

Next == Tick \/ PoseFrame \/ Render

Spec == Init /\ [][Next]_vars

\* XRJointsProvider: the pose callback got null from getJointsFromXRFrame (the
\* hand is not tracked); `if (jointTransforms)` skips setJoints, so the
\* context keeps the frame published last
PoseLost ==
    /\ jointTransforms' = NullJoints
    /\ UNCHANGED <<clock, atom, gesture, joints, neutralState, thumbDistance, isNeutral,
                   cfg, track, currentTime, out, lastEventTime>>
    /\ UNCHANGED provider

\* the composition with a pose source that can lose the hand
SpecLoss == Init /\ [][Next \/ PoseLost]_vars

SpecHook == Init /\ [][HookFrame]_vars

-----------------------------------------------------------------------------
(* useNeutralHandPos on its own: the context publishes any joints value, a    *)
(* frame or null, and the hook is rendered with it.                           *)

(* XRJointsProvider with its session bookkeeping: the store hands it sessions *)
(* and reference spaces, its effect starts a chain of animation-frame         *)
(* callbacks for each pair, and each callback polls the hand.                 *)

\* the xrStore subscription sets session and originReferenceSpace, the render
\* re-runs the effect: its cleanup does nothing, and with both values set
\* animate() requests the first callback of a new chain.  The store replaces
\* a session only after it has ended (SessionEnd).
SetDeps ==
    \E s \in {Undefined} \cup Sessions, r \in {Undefined} \cup Spaces :
        /\ mounted
        /\ <<s, r>> # <<session, originReferenceSpace>>
        /\ s = session \/ session = Undefined
        /\ session' = s
        /\ originReferenceSpace' = r
        /\ IF s # Undefined /\ r # Undefined
           THEN /\ pending[<<s, r>>] < MaxPending
                /\ pending' = [pending EXCEPT ![<<s, r>>] = @ + 1]
           ELSE pending' = pending
        /\ UNCHANGED <<clock, atom, gesture, joints, jointTransforms, neutralState,
                       thumbDistance, isNeutral, cfg, track, currentTime, out,
                       lastEventTime, inputSources, mounted, lastChain>>

\* the provider unmounts: the effect's cleanup runs and does nothing
Unmount ==
    /\ mounted
    /\ mounted' = FALSE
    /\ UNCHANGED <<clock, atom, gesture, joints, jointTransforms, neutralState,
                   thumbDistance, isNeutral, cfg, track, currentTime, out,
                   lastEventTime, inputSources, session, originReferenceSpace,
                   pending, lastChain>>

\* an XR session ends: its requested callbacks are never run, and the store
\* clears session and originReferenceSpace of a mounted provider holding it
SessionEnd ==
    \E s \in Sessions :
        /\ session = s \/ \E k \in ChainKeys : k[1] = s /\ pending[k] > 0
        /\ pending' = [k \in ChainKeys |-> IF k[1] = s THEN 0 ELSE pending[k]]
        /\ IF mounted /\ session = s
           THEN session' = Undefined /\ originReferenceSpace' = Undefined
           ELSE UNCHANGED <<session, originReferenceSpace>>
        /\ UNCHANGED <<clock, atom, gesture, joints, jointTransforms, neutralState,
                       thumbDistance, isNeutral, cfg, track, currentTime, out,
                       lastEventTime, inputSources, mounted, lastChain>>

\* one animation-frame callback of the chain that captured k: it polls the
\* hand, publishes a non-null result when the throttle interval has passed
\* (a setJoints of an unmounted provider does nothing), and requests the next
\* callback; sources is what session.inputSources can be in the run
ChainFrame(sources) ==
    \E k \in ChainKeys, src \in sources, due \in BOOLEAN :
        LET polled == getJointsFromXRFrame(src)
        IN  /\ pending[k] > 0
            /\ inputSources' = src
            /\ jointTransforms' = polled
            /\ lastChain' = k
            /\ pending' = [pending EXCEPT ![k] = (@ - 1) + 1]
            /\ IF polled # NullJoints /\ due /\ mounted
               THEN Commit(polled)
               ELSE UNCHANGED <<gesture, joints, isNeutral, neutralState, thumbDistance,
                                atom>>
            /\ UNCHANGED <<clock, cfg, track, currentTime, out, lastEventTime, session,
                           originReferenceSpace, mounted>>

\* at most one input source per callback
SingleInputs == {src \in Inputs : Len(src) <= 1}

SpecProvider ==
    Init /\ [][SetDeps \/ Unmount \/ SessionEnd \/ ChainFrame(SingleInputs)]_vars

\* one running chain polling every list of input sources
InitPoll ==
    /\ clock = -1
    /\ atom = InitialGesture
    /\ gesture = InitialGesture
    /\ joints = ZeroFrame
    /\ jointTransforms = ZeroFrame
    /\ neutralState = checkNeutralPosition(ZeroFrame, FALSE)
    /\ thumbDistance = ThumbDistanceOf(ZeroFrame, 0)
    /\ isNeutral = FALSE
    /\ cfg = SmallCfg
    /\ track = [d \in Detectors |-> ResetTrack]
    /\ currentTime = [d \in Detectors |-> 0]
    /\ out = [d \in Detectors |-> NoOut]
    /\ lastEventTime = -1
    /\ inputSources = NullSources
    /\ session = 1
    /\ originReferenceSpace = 1
    /\ mounted = TRUE
    /\ pending = [k \in ChainKeys |-> IF k = <<1, 1>> THEN 1 ELSE 0]
    /\ lastChain = NoChain

SpecPoll == InitPoll /\ [][ChainFrame(Inputs)]_vars

\* system start: frames, renders and store updates before any pose callback
\* has run
SpecStart == Init /\ [][Tick \/ Render \/ SetDeps]_vars

NeutralFrames == Frames \cup {NullJoints}

NeutralFrame ==
    \E j \in NeutralFrames :
        /\ Commit(j)
        /\ jointTransforms' = j
        /\ UNCHANGED <<clock, cfg, track, currentTime, out, lastEventTime>>
        /\ UNCHANGED provider

SpecNeutral == Init /\ [][NeutralFrame]_vars

-----------------------------------------------------------------------------
(* The trigger-law run: a reset detector, an unblocked lock, the hand        *)
(* neutral; one frame every 0.1 s for 0.7 s, the tracked joint one step       *)
(* (0.01 m) further left in each, React re-rendering between the frames;      *)
(* useSwipeGesture has its default thresholds.                                *)

P4Times == 1..7
P4Starts == (7..9) \X (0..2) \X (0..1)

InitP4 ==
    /\ clock = 0
    /\ atom = [InitialGesture EXCEPT !.neutral = TRUE]
    /\ gesture = atom
    /\ joints \in P4Starts
    /\ jointTransforms = joints
    /\ neutralState = TRUE
    /\ thumbDistance = ThumbDistanceOf(joints, 0)
    /\ isNeutral = TRUE
    /\ cfg = DefaultCfg
    /\ track = [d \in Detectors |-> ResetTrack]
    /\ currentTime = [d \in Detectors |-> 0]
    /\ out = [d \in Detectors |-> NoOut]
    /\ lastEventTime = -1
    /\ ProviderInit

StepP4 ==
    LET j == <<joints[1] - 1, joints[2], joints[3]>>
        n == checkNeutralPosition(j, neutralState)
    IN  /\ clock + 1 \in P4Times
        /\ joints' = j
        /\ jointTransforms' = j
        /\ neutralState' = n
        /\ thumbDistance' = ThumbDistanceOf(j, thumbDistance)
        /\ isNeutral' = n
        /\ gesture' = atom
        /\ TickWith(j, n, atom, clock + 1)
        /\ UNCHANGED cfg
        /\ UNCHANGED provider

SpecP4 == InitP4 /\ [][StepP4]_vars

-----------------------------------------------------------------------------
(* The zigzag run: the hand neutral, the lock as rendered, one frame every    *)
(* 0.1 s; the larger displacement of the tracked joint is along X in the odd  *)
(* frames and along Y in the even ones.                                       *)

DominantAxis(from, to) ==
    LET dx == Abs(to[1] - from[1])
        dy == Abs(to[2] - from[2])
    IN  IF dx > dy THEN "X" ELSE IF dy > dx THEN "Y" ELSE "tie"

\* the axis satisfies its threshold within its time budget, measured from the
\* window t the detector holds when the frame at time now samples cur
Satisfies(t, axis, thr, timeThr, cur, now) ==
    /\ t.gestureStartPosition # NullPos
    /\ Abs(cur[axis] - t.gestureStartPosition[axis]) >= thr
    /\ now - t.gestureStartTime <= timeThr

SatisfiesAny(t, c, cur, now) ==
    \/ Satisfies(t, 1, c.horizontalThreshold, c.horizontalTimeThreshold, cur, now)
    \/ Satisfies(t, 2, c.verticalThreshold, c.verticalTimeThreshold, cur, now)

StepZigzag ==
    \E j \in {f \in Frames : f[3] = joints[3]} :
        /\ clock + 1 <= ZigMaxTime
        /\ DominantAxis(joints, j) = (IF (clock + 1) % 2 = 1 THEN "X" ELSE "Y")
        /\ \A d \in Detectors : ~SatisfiesAny(track[d], cfg, MiddleTip(j), clock + 1)
        /\ joints' = j
        /\ jointTransforms' = j
        /\ UNCHANGED <<neutralState, thumbDistance, isNeutral, cfg>>
        /\ gesture' = atom
        /\ TickWith(j, isNeutral, atom, clock + 1)
        /\ UNCHANGED provider

InitZigzag ==
    /\ clock = -1
    /\ atom = [InitialGesture EXCEPT !.neutral = TRUE]
    /\ gesture = atom
    /\ joints \in {f \in Frames : f[3] <= NeutralThreshold}
    /\ jointTransforms = joints
    /\ neutralState = TRUE
    /\ thumbDistance = ThumbDistanceOf(joints, 0)
    /\ isNeutral = TRUE
    /\ cfg = SmallCfg
    /\ track = [d \in Detectors |-> ResetTrack]
    /\ currentTime = [d \in Detectors |-> 0]
    /\ out = [d \in Detectors |-> NoOut]
    /\ lastEventTime = -1
    /\ ProviderInit

SpecZigzag == InitZigzag /\ [][StepZigzag]_vars

-----------------------------------------------------------------------------
(* The sustained run: as the trigger-law run, but the joint moves one to      *)
(* MaxSpeed steps further left in each frame, for RunMaxTime frames.          *)

StepRetrigger ==
    \E dx \in 1..MaxSpeed :
        LET j == <<joints[1] - dx, joints[2], joints[3]>>
            n == checkNeutralPosition(j, neutralState)
        IN  /\ clock + 1 <= RunMaxTime
            /\ joints' = j
            /\ jointTransforms' = j
            /\ neutralState' = n
            /\ thumbDistance' = ThumbDistanceOf(j, thumbDistance)
            /\ isNeutral' = n
            /\ gesture' = atom
            /\ TickWith(j, n, atom, clock + 1)
            /\ UNCHANGED cfg
            /\ UNCHANGED provider

SpecRetrigger == InitP4 /\ [][StepRetrigger]_vars

\* the sustained run under a frame loop that keeps running: each frame is
\* followed by its render and the clock keeps increasing up to the end of the
\* run
ClockAdvances == clock + 1 <= RunMaxTime /\ clock' = clock + 1

SpecRetriggerLive == SpecRetrigger /\ WF_clock(ClockAdvances)

-----------------------------------------------------------------------------
(* Properties *)

\* a step that runs the frame callbacks
IsFrame == clock' # clock

\* the frame's joints pass the gate of useSwipeGesture
GateOpen == joints' # NullJoints /\ isNeutral'

\* C1: any two callback invocations, of any direction and any detector sharing
\* the lock, are at least blockDuration apart: a frame in which a detector
\* fires has no other detector firing in it and is at least blockDuration
\* after the previous event.
C1_MutualExclusion ==
    [][IsFrame =>
        \A d \in Detectors :
            out'[d].fired # "none" =>
                /\ \A e \in Detectors \ {d} : out'[e].fired = "none"
                /\ lastEventTime # -1 => clock' - lastEventTime >= BlockDuration]_vars

\* C2: once one detector's triggerGesture() has returned true, a later call in
\* the same frame by another detector returns false: no frame has two
\* detectors whose triggerGesture() both returned true.
C2_SingleSerializationPoint ==
    \A d, e \in Detectors :
        d # e => ~(out[d].called = "true" /\ out[e].called = "true")

\* C3: a frame of useSwipeGesture in which joints is absent or neutral is false
\* ends with all five tracking refs null, invokes no callback and does not
\* call triggerGesture.
C3_LossResets ==
    (clock # -1 /\ (joints = NullJoints \/ ~isNeutral)) =>
        \A d \in Detectors :
            /\ track[d] = ResetTrack
            /\ out[d].fired = "none"
            /\ out[d].called = "none"

C3_Witness ==
    /\ clock > 0
    /\ joints # NullJoints
    /\ ~isNeutral
    /\ \A d \in Detectors : out[d].branch = "notneutral" /\ track[d] = ResetTrack

\* C4 as stated: in the trigger-law run onLeft fires exactly once, at the 6th
\* frame (t = 0.6 s).
C4_FiresAtSixthTick ==
    \A d \in Detectors :
        clock >= 1 => (out[d].fired = "left" <=> clock = 6)

\* C4 amended: in the trigger-law run onLeft fires exactly once, at the 7th
\* frame (t = 0.7 s, 0.6 s and 0.06 m after the first frame's sample, which
\* only anchors the window), and no other callback fires.
C4_FiresAtSeventhTick ==
    \A d \in Detectors :
        clock >= 1 =>
            /\ out[d].fired \in {"none", "left"}
            /\ out[d].fired = "left" <=> clock = 7

C4_Witness ==
    /\ clock = 7
    /\ \A d \in Detectors :
        /\ out[d].fired = "left"
        /\ track[d].gestureStartPosition = MiddleTip(joints)
        /\ track[d].gestureStartTime = 7

\* C5: with neutral true and the direction locked left, a frame whose motion
\* is to the right invokes no callback and ends with the window anchored at
\* that frame's sample and time and with currentDirection null.
C5_ReversalDebounce ==
    [][IsFrame /\ GateOpen =>
        \A d \in Detectors :
            LET deltaX == joints'[1] - track[d].previousPosition[1]
                deltaY == joints'[2] - track[d].previousPosition[2]
            IN  (track[d].currentDirection = "left" /\ deltaX > 0
                    /\ Abs(deltaX) > Abs(deltaY)) =>
                    /\ out'[d].fired = "none"
                    /\ track'[d].gestureStartPosition = MiddleTip(joints')
                    /\ track'[d].gestureStartTime = clock'
                    /\ track'[d].currentDirection = NullDir]_vars

C5_Witness ==
    /\ joints # NullJoints
    /\ joints[1] = MaxX
    /\ \A d \in Detectors :
        /\ out[d].branch = "horizontal"
        /\ out[d].fired = "none"
        /\ out[d].called = "none"
        /\ track[d].currentDirection = NullDir
        /\ track[d].gestureStartPosition = MiddleTip(joints)
        /\ track[d].gestureStartTime = clock

\* C6: after a successful trigger, at the first later frame where the distance
\* from the new anchor reaches the threshold within the time threshold and the
\* lock is no longer blocked, a second event fires, at least blockDuration
\* after the first.
C6_RetriggerAfterFire ==
    [][IsFrame =>
        \A d \in Detectors :
            (/\ lastEventTime # -1
             /\ track[d].gestureStartTime = lastEventTime
             /\ out'[d].called # "none"
             /\ ~out'[d].locked) =>
                /\ out'[d].fired # "none"
                /\ clock' - lastEventTime >= BlockDuration]_vars

\* C7: in the zigzag run, where no axis satisfies its threshold within its
\* time budget in any frame, no callback is ever invoked.
C7_ZigzagNonTrigger ==
    \A d \in Detectors : out[d].fired = "none"

\* C8: in a frame where the distance, time and callback conditions are met but
\* triggerGesture() returns false, no callback is invoked and
\* gestureStartPosition and gestureStartTime are what they were at frame entry.
C8_SuppressionKeepsWindow ==
    [][IsFrame =>
        \A d \in Detectors :
            out'[d].called = "false" =>
                /\ out'[d].fired = "none"
                /\ track'[d].gestureStartPosition = track[d].gestureStartPosition
                /\ track'[d].gestureStartTime = track[d].gestureStartTime]_vars

C8_Witness ==
    \E d \in Detectors :
        /\ out[d].called = "false"
        /\ out[d].fired = "none"
        /\ track[d].gestureStartTime < clock
        /\ track[d].gestureStartPosition # MiddleTip(joints)

\* C9: when the lock's isBlocked is true, triggerGesture() returns false.
C9_BlockedReturnsFalse ==
    \A d \in Detectors :
        (out[d].called # "none" /\ out[d].locked) => out[d].called = "false"

\* C10: when the lock's isBlocked is false, triggerGesture() returns true and
\* the lock becomes isBlocked = true with lastGestureTime the frame's time.
C10_UnblockedReturnsTrue ==
    \A d \in Detectors :
        (out[d].called # "none" /\ ~out[d].locked) =>
            /\ out[d].called = "true"
            /\ atom.isBlocked
            /\ atom.lastGestureTime = clock

\* the lock is blocked and its block has run out at time now
Expired(a, now) == a.isBlocked /\ now - a.lastGestureTime >= BlockDuration

\* C11: the manager's frame step clears isBlocked exactly when the lock is
\* blocked and now - lastGestureTime >= blockDuration, leaves the lock as it is
\* in every other case and never changes lastGestureTime: a frame in which no
\* triggerGesture() returned true leaves the lock cleared if it had expired
\* and unchanged otherwise.
C11_AdvanceClearsWhenExpired ==
    [][(IsFrame /\ \A d \in Detectors : out'[d].called # "true") =>
        atom' = IF Expired(atom, clock')
                THEN [atom EXCEPT !.isBlocked = FALSE]
                ELSE atom]_vars

\* C12: if the lock is blocked at frame entry and now - lastGestureTime >=
\* blockDuration, the manager's step has unblocked it before the detectors
\* run, so a frame in which a detector's trigger conditions are met has a
\* triggerGesture() returning true and a callback invoked.
C12_AdvanceVisibleInSameTick ==
    [][(IsFrame /\ Expired(atom, clock')
            /\ \E d \in Detectors : out'[d].called # "none") =>
        \E d \in Detectors : out'[d].called = "true" /\ out'[d].fired # "none"]_vars

\* the direction whose block the frame's motion selects
Candidate(from, to) ==
    LET deltaX == to[1] - from[1]
        deltaY == to[2] - from[2]
    IN  IF Abs(deltaX) > Abs(deltaY)
        THEN (IF deltaX < 0 THEN "left" ELSE "right")
        ELSE IF Abs(deltaY) > Abs(deltaX)
        THEN (IF deltaY > 0 THEN "up" ELSE "down")
        ELSE "none"

\* C13: in one frame a useSwipeGesture instance invokes at most one of its
\* callbacks, at most once, and does so inside the frame.
C13_AtMostOneCallbackPerTick ==
    \A d \in Detectors :
        /\ out[d].calls <= 1
        /\ out[d].calls = 1 <=> out[d].fired \in Directions
        /\ out[d].calls = 0 <=> out[d].fired = "none"
        /\ out[d].fired # "none" => lastEventTime = clock

C13_Witness ==
    \E d \in Detectors :
        /\ out[d].calls = 1
        /\ out[d].fired = "up"
        /\ lastEventTime = clock

\* C14: a triggerGesture() that returns true is followed in the same frame by
\* exactly one callback invocation, of the candidate direction, and no
\* callback is invoked in a frame without a triggerGesture() that returned
\* true.
C14_CallbackIffLockAcquired ==
    [][IsFrame =>
        \A d \in Detectors :
            /\ out'[d].called = "true" <=> out'[d].calls = 1
            /\ out'[d].called # "true" => out'[d].calls = 0 /\ out'[d].fired = "none"
            /\ out'[d].called = "true" =>
                    out'[d].fired = Candidate(track[d].previousPosition, MiddleTip(joints'))]_vars

C14_Witness ==
    \A d \in Detectors :
        /\ out[d].called = "true"
        /\ out[d].fired = "right"
        /\ out[d].calls = 1
        /\ track[d].gestureStartTime = clock

C16_NeutralWithoutFrame ==
    [][joints' = NullJoints => ~neutralState' /\ thumbDistance' = thumbDistance]_vars

C16_Witness ==
    /\ joints = NullJoints
    /\ ~neutralState
    /\ isNeutral
    /\ thumbDistance = NeutralThreshold

\* a step that renders the hooks
IsRender == clock' = clock

AxisOf(dir) ==
    IF dir \in {"left", "right"} THEN "X" ELSE IF dir \in {"up", "down"} THEN "Y" ELSE "none"

\* C18: when a direction is locked on one axis and a frame's dominant axis is
\* the other one, the window is re-anchored to that frame's sample and time.
C18_AxisChangeReanchors ==
    [][(IsFrame /\ GateOpen) =>
        \A d \in Detectors :
            (/\ track[d].currentDirection # NullDir
             /\ DominantAxis(track[d].previousPosition, MiddleTip(joints')) \notin
                    {"tie", AxisOf(track[d].currentDirection)}) =>
                /\ track'[d].gestureStartPosition = MiddleTip(joints')
                /\ track'[d].gestureStartTime = clock']_vars

\* C19: gestureStartPosition and gestureStartTime go from set to null only in
\* a frame where joints is absent or neutral is false; a reversal or a fire
\* leaves the window anchored at the frame's sample.
C19_OnlyGateFailureClearsWindow ==
    [][IsFrame =>
        \A d \in Detectors :
            /\ (track[d].gestureStartPosition # NullPos
                    /\ track'[d].gestureStartPosition = NullPos) => ~GateOpen
            /\ (track[d].gestureStartTime # NullTime
                    /\ track'[d].gestureStartTime = NullTime) => ~GateOpen
            /\ GateOpen =>
                    /\ track'[d].gestureStartPosition # NullPos
                    /\ track'[d].gestureStartTime # NullTime]_vars

C19_Witness ==
    /\ joints # NullJoints
    /\ isNeutral
    /\ \E d \in Detectors :
        /\ out[d].fired # "none"
        /\ track[d].gestureStartPosition = MiddleTip(joints)
        /\ track[d].gestureStartTime = clock
        /\ clock = HookMaxTime

\* C20: whenever a callback is invoked at frame time now, the window held at
\* frame entry has, on the callback's axis, a distance to the frame's sample
\* of at least the threshold and a start time at most the time threshold
\* before now.
C20_TriggerNecessaryCondition ==
    [][IsFrame =>
        \A d \in Detectors :
            /\ out'[d].fired \in {"left", "right"} =>
                    Satisfies(track[d], 1, cfg.horizontalThreshold,
                              cfg.horizontalTimeThreshold, MiddleTip(joints'), clock')
            /\ out'[d].fired \in {"up", "down"} =>
                    Satisfies(track[d], 2, cfg.verticalThreshold,
                              cfg.verticalTimeThreshold, MiddleTip(joints'), clock')]_vars

\* threshold and time budget of the axis of direction dir
ThresholdOf(c, dir) ==
    IF dir \in {"left", "right"} THEN c.horizontalThreshold ELSE c.verticalThreshold

TimeThresholdOf(c, dir) ==
    IF dir \in {"left", "right"} THEN c.horizontalTimeThreshold ELSE c.verticalTimeThreshold

AxisIndex(dir) == IF dir \in {"left", "right"} THEN 1 ELSE 2

\* C21: in a gate-passing frame with a previous sample whose dominant delta
\* points in direction dir, with currentDirection null or dir, the distance
\* from the window anchor at least the threshold, the window's age within the
\* time threshold, the callback of dir registered and the lock not blocked,
\* the callback of dir is invoked in that frame.
C21_TriggerSufficientCondition ==
    [][(IsFrame /\ GateOpen) =>
        \A d \in Detectors :
            LET t == track[d]
                cur == MiddleTip(joints')
                dir == IF t.previousPosition = NullPos THEN "none"
                       ELSE Candidate(t.previousPosition, cur)
            IN  (/\ dir # "none"
                 /\ t.currentDirection \in {NullDir, dir}
                 /\ Satisfies(t, AxisIndex(dir), ThresholdOf(cfg, dir),
                              TimeThresholdOf(cfg, dir), cur, clock')
                 /\ dir \in Callbacks[d]
                 /\ ~out'[d].locked) => out'[d].fired = dir]_vars

\* C22: while a direction is locked on one axis, a gate-passing frame whose
\* dominant axis is the other one invokes no callback, does not call
\* triggerGesture and leaves gestureStartPosition, gestureStartTime and
\* currentDirection as they were.
C22_OtherAxisIgnored ==
    [][(IsFrame /\ GateOpen) =>
        \A d \in Detectors :
            (/\ track[d].currentDirection # NullDir
             /\ track[d].previousPosition # NullPos
             /\ DominantAxis(track[d].previousPosition, MiddleTip(joints')) \notin
                    {"tie", AxisOf(track[d].currentDirection)}) =>
                /\ out'[d].fired = "none"
                /\ out'[d].called = "none"
                /\ track'[d].gestureStartPosition = track[d].gestureStartPosition
                /\ track'[d].gestureStartTime = track[d].gestureStartTime
                /\ track'[d].currentDirection = track[d].currentDirection]_vars

\* a frame took the vertical branch while a horizontal direction stayed locked
C22_Witness ==
    \E d \in Detectors :
        /\ out[d].branch = "vertical"
        /\ track[d].currentDirection \in {"left", "right"}
        /\ track[d].gestureStartPosition # track[d].previousPosition

\* C23: a gate-passing frame whose per-frame deltas have equal magnitude (no
\* motion included) invokes no callback, does not call triggerGesture and
\* leaves gestureStartPosition, gestureStartTime and currentDirection as they
\* were; only previousPosition and previousTime advance.
C23_TieIsNoOp ==
    [][(IsFrame /\ GateOpen) =>
        \A d \in Detectors :
            (/\ track[d].previousPosition # NullPos
             /\ DominantAxis(track[d].previousPosition, MiddleTip(joints')) = "tie") =>
                /\ out'[d].fired = "none"
                /\ out'[d].called = "none"
                /\ track'[d] = [track[d] EXCEPT !.previousPosition = MiddleTip(joints'),
                                                !.previousTime = clock']]_vars

\* a tie frame ran while a direction was locked and the window was older
\* than the frame
C23_Witness ==
    \E d \in Detectors :
        /\ out[d].branch = "tie"
        /\ track[d].currentDirection # NullDir
        /\ track[d].previousPosition = MiddleTip(joints)
        /\ track[d].gestureStartTime < clock

\* C24: a window older than its time threshold is not re-anchored or cleared
\* because time passed: in a gate-passing frame that continues the locked
\* direction, the window keeps its anchor and its start time and no callback
\* is invoked.
C24_StaleWindowKept ==
    [][(IsFrame /\ GateOpen) =>
        \A d \in Detectors :
            LET t == track[d]
                dir == t.currentDirection
            IN  (/\ dir # NullDir
                 /\ t.previousPosition # NullPos
                 /\ Candidate(t.previousPosition, MiddleTip(joints')) = dir
                 /\ clock' - t.gestureStartTime > TimeThresholdOf(cfg, dir)) =>
                    /\ out'[d].fired = "none"
                    /\ track'[d].gestureStartPosition = t.gestureStartPosition
                    /\ track'[d].gestureStartTime = t.gestureStartTime]_vars

\* C25: at the end of a frame in which a detector invoked a callback, its
\* gestureStartPosition is that frame's sample, its gestureStartTime is the
\* frame's time and its currentDirection is null.
C25_FireReanchors ==
    \A d \in Detectors :
        out[d].fired # "none" =>
            /\ track[d].gestureStartPosition = MiddleTip(joints)
            /\ track[d].gestureStartTime = clock
            /\ track[d].currentDirection = NullDir

\* a detector fired on a window that had been anchored elsewhere: the fire
\* needs a distance of at least the threshold from the old anchor
C25_Witness ==
    \E d \in Detectors :
        /\ out[d].fired \in {"left", "right"}
        /\ track[d].currentDirection = NullDir
        /\ track[d].gestureStartPosition = track[d].previousPosition
        /\ lastEventTime = clock

\* C26: in a gate-passing frame where the distance and time conditions are met
\* for a direction whose callback is not registered, triggerGesture is not
\* called, the lock keeps its lastGestureTime and is not taken (unless another
\* detector takes it in that frame), and the window is not re-anchored.
C26_UnregisteredKeepsLock ==
    [][(IsFrame /\ GateOpen) =>
        \A d \in Detectors :
            LET t == track[d]
                cur == MiddleTip(joints')
                dir == IF t.previousPosition = NullPos THEN "none"
                       ELSE Candidate(t.previousPosition, cur)
            IN  (/\ dir \in Directions \ Callbacks[d]
                 /\ t.currentDirection \in {NullDir, dir}
                 /\ Satisfies(t, AxisIndex(dir), ThresholdOf(cfg, dir),
                              TimeThresholdOf(cfg, dir), cur, clock')) =>
                    /\ out'[d].called = "none"
                    /\ out'[d].fired = "none"
                    /\ (\A e \in Detectors \ {d} : out'[e].called # "true") =>
                            /\ atom'.lastGestureTime = atom.lastGestureTime
                            /\ atom'.isBlocked => atom.isBlocked
                    /\ track'[d].gestureStartPosition = t.gestureStartPosition
                    /\ track'[d].gestureStartTime = t.gestureStartTime]_vars

\* a downward frame met the vertical threshold in time and the detector, with
\* no onDown, only locked the direction; the lock stayed free
C26_Witness ==
    \E d \in Detectors :
        /\ track[d].currentDirection = "down"
        /\ ~atom.isBlocked
        /\ "down" \notin Callbacks[d]
        /\ Satisfies(track[d], 2, cfg.verticalThreshold, cfg.verticalTimeThreshold,
                     MiddleTip(joints), clock)
        /\ out[d].called = "none"

\* C27: the callback a detector invokes matches the frame's dominant delta:
\* onLeft only when |deltaX| > |deltaY| and deltaX < 0, onRight only when
\* |deltaX| > |deltaY| and deltaX > 0, onUp only when |deltaY| > |deltaX| and
\* deltaY > 0, onDown only when |deltaY| > |deltaX| and deltaY < 0.
C27_DirectionMapping ==
    [][IsFrame =>
        \A d \in Detectors :
            out'[d].fired # "none" =>
                /\ track[d].previousPosition # NullPos
                /\ LET deltaX == MiddleTip(joints')[1] - track[d].previousPosition[1]
                       deltaY == MiddleTip(joints')[2] - track[d].previousPosition[2]
                   IN  /\ out'[d].fired = "left" => (Abs(deltaX) > Abs(deltaY) /\ deltaX < 0)
                       /\ out'[d].fired = "right" => (Abs(deltaX) > Abs(deltaY) /\ deltaX > 0)
                       /\ out'[d].fired = "up" => (Abs(deltaY) > Abs(deltaX) /\ deltaY > 0)
                       /\ out'[d].fired = "down" => (Abs(deltaY) > Abs(deltaX) /\ deltaY < 0)]_vars

\* onUp was invoked in a frame that moved up from a lower anchor
C27_Witness ==
    \E d \in Detectors :
        /\ out[d].fired = "up"
        /\ MiddleTip(joints)[2] > 0
        /\ track[d].previousTime = clock

\* C28: at the end of every gate-passing frame, whichever branch ran,
\* previousPosition is the frame's sample and previousTime is the frame's time.
C28_SampleUpdateUnconditional ==
    (clock >= 0 /\ joints # NullJoints /\ isNeutral) =>
        \A d \in Detectors :
            /\ out[d].branch \in {"bootstrap", "horizontal", "vertical", "tie"}
            /\ track[d].previousPosition = MiddleTip(joints)
            /\ track[d].previousTime = clock

\* every gate-passing branch has run with the sample advanced: here a frame
\* that only anchored the window
C28_Witness ==
    \E d \in Detectors :
        /\ out[d].branch = "bootstrap"
        /\ track[d].previousTime = clock
        /\ track[d].gestureStartTime = clock
        /\ clock > 0

\* C29: in the composed system, a frame that runs while the pose source's
\* last report was null (getJointsFromXRFrame returned null) leaves every
\* detector's tracking state fully reset, invokes no callback, and the
\* neutral flag is false.
C29_HandLossEndToEnd ==
    [][(IsFrame /\ jointTransforms = NullJoints) =>
        /\ \A d \in Detectors :
            /\ track'[d] = ResetTrack
            /\ out'[d].fired = "none"
        /\ ~neutralState']_vars

\* C30: the neutral value a frame callback uses as its gate is the one
\* computed from the joint frame it samples, never one computed from an older
\* frame: a frame callback that finds the gate open reads joints whose thumb
\* and index tips are within the neutral threshold.
C30_ConsistentGate ==
    [][(IsFrame /\ joints # NullJoints /\ isNeutral) =>
        checkNeutralPosition(joints, isNeutral)]_vars

-----------------------------------------------------------------------------
(* The legacy single-direction hook useLeftSwipeGesture, run side by side    *)
(* with useSwipeGesture({onLeft}) on the same frames.  In this run detector  *)
(* A is the unified hook and B is the legacy hook; each run has its own lock,*)
(* and the two locks are equal as long as the two hooks fired on the same    *)
(* frames, so one lock value is kept, driven by A.                            *)

\* one frame callback of useLeftSwipeGesture; the hook has no currentDirection
\* ref and no neutral gate
useLeftSwipeGesture(t, threshold, timeThreshold, j, now, g) ==
    IF j = NullJoints
    THEN [track |-> ResetTrack, called |-> "none", fired |-> "none", calls |-> 0,
          branch |-> "nojoints"]
    ELSE LET cur == MiddleTip(j)
             anchored == [t EXCEPT !.gestureStartPosition = cur, !.gestureStartTime = now]
             t0 == IF t.gestureStartPosition = NullPos THEN anchored ELSE t
             none == [track |-> t0, called |-> "none", fired |-> "none", calls |-> 0]
             r == IF t0.previousPosition # NullPos /\ Truthy(t0.previousTime)
                  THEN LET deltaX == cur[1] - t0.previousPosition[1]
                           totalDistance == Abs(cur[1] - CoordOrZero(t0.gestureStartPosition, 1))
                           totalTime == now - OrElse(t0.gestureStartTime, now)
                       IN  IF deltaX < 0
                           THEN IF totalDistance >= threshold /\ totalTime <= timeThreshold
                                THEN IF TriggerResult(g)
                                     THEN [track |-> anchored, called |-> "true",
                                           fired |-> "left", calls |-> 1,
                                           branch |-> "horizontal"]
                                     ELSE [none EXCEPT !.called = "false"]
                                              @@ [branch |-> "horizontal"]
                                ELSE none @@ [branch |-> "horizontal"]
                           ELSE IF deltaX > 0
                           THEN [none EXCEPT !.track = anchored] @@ [branch |-> "horizontal"]
                           ELSE none @@ [branch |-> "tie"]
                  ELSE none @@ [branch |-> "bootstrap"]
         IN  [r EXCEPT !.track = [r.track EXCEPT !.previousPosition = cur,
                                                 !.previousTime = now]]

StepLegacy ==
    \E j \in {f \in Frames : f[2] = joints[2] /\ f[3] = joints[3]} :
        LET now == clock + 1
            a1 == ManagerFrame(atom, atom, now, BlockDuration)
            u == SwipeFrame(track["A"], cfg, j, TRUE, now, a1, {"left"})
            l == useLeftSwipeGesture(track["B"], cfg.horizontalThreshold,
                                     cfg.horizontalTimeThreshold, j, now, a1)
            result(r) == [branch |-> r.branch, called |-> r.called, fired |-> r.fired,
                          calls |-> r.calls, locked |-> a1.isBlocked]
        IN  /\ now <= LegacyMaxTime
            /\ clock' = now
            /\ joints' = j
            /\ jointTransforms' = j
            /\ track' = [d \in Detectors |-> IF d = "A" THEN u.track ELSE l.track]
            /\ out' = [d \in Detectors |-> IF d = "A" THEN result(u) ELSE result(l)]
            /\ atom' = IF u.called = "true" THEN TriggerUpdate(a1, now, BlockDuration) ELSE a1
            /\ gesture' = atom'
            /\ currentTime' = [d \in Detectors |-> now]
            /\ lastEventTime' = IF u.fired # "none" THEN now ELSE lastEventTime
            /\ UNCHANGED <<neutralState, thumbDistance, isNeutral, cfg>>
            /\ UNCHANGED provider

SpecLegacy == InitZigzag /\ [][StepLegacy]_vars

\* C31: with motion confined to the X axis, neutral throughout, equal
\* thresholds, equal lock state and only onLeft registered, useSwipeGesture
\* invokes onLeft in exactly the frames in which useLeftSwipeGesture invokes
\* its callback.
C31_LegacyIsSpecialCase ==
    [][IsFrame => (out'["A"].fired = "left" <=> out'["B"].fired = "left")]_vars

\* C32: getJointsFromXRFrame returns a joint array exactly when the poses of
\* at least one hand input source were filled: null for no input sources, for
\* no hand among them and for failed fills, non-null otherwise, whatever the
\* order of the input sources.
C32_JointsIffHandFilled ==
    lastChain # NoChain =>
        (jointTransforms # NullJoints <=>
            /\ inputSources # NullSources
            /\ \E i \in 1..Len(inputSources) : inputSources[i][1] = "hand")

\* the step is a pose callback of XRJointsProvider that polled something new
IsPoll ==
    <<inputSources', lastChain', jointTransforms'>> # <<inputSources, lastChain, jointTransforms>>

\* C39: a pose callback of a chain started for a session or reference space
\* the provider no longer has, or of an unmounted provider, requests no
\* further animation frame and publishes no joints: only the chain of the
\* current session and reference space stays live.
C39_SingleLiveChain ==
    [][(IsPoll /\ (~mounted \/ lastChain' # <<session, originReferenceSpace>>)) =>
        /\ pending'[lastChain'] < pending[lastChain']
        /\ joints' = joints]_vars

\* C33: until the pose source has delivered its first hand pose (no pose
\* callback has run, the provider holds its initial joints), neutral is false
\* and no swipe callback has been invoked.
C33_NoGestureBeforeFirstPose ==
    (lastChain = NoChain /\ joints = ZeroFrame) =>
        /\ ~isNeutral
        /\ ~atom.neutral
        /\ \A d \in Detectors : out[d].fired = "none"

\* C34: the lock does not stay blocked: with frames, each followed by its
\* render, that keep occurring with an increasing clock, a blocked lock is
\* unblocked again, at the latest in the first frame that has
\* now - lastGestureTime >= blockDuration and runs after a render that saw the
\* lock blocked.  Only a lock taken less than blockDuration before the end of
\* the run is still blocked there.
C34_LockEventuallyReleased ==
    /\ atom.isBlocked ~>
            (\/ ~atom.isBlocked
             \/ clock = RunMaxTime /\ clock - atom.lastGestureTime < BlockDuration)
    /\ [][(/\ IsFrame
           /\ atom.isBlocked
           /\ gesture = atom
           /\ clock' - atom.lastGestureTime >= BlockDuration) => ~atom'.isBlocked]_vars

\* a lock taken by a callback has been released before the end of the run
C34_Witness ==
    /\ lastEventTime >= 0
    /\ ~atom.isBlocked
    /\ clock < RunMaxTime
    /\ clock - lastEventTime = BlockDuration

-----------------------------------------------------------------------------
(* Two useGestureManager instances on the shared lock with different         *)
(* blockDuration arguments: A's is the default, B's is longer.  Each frame   *)
(* runs both managers' frame callbacks, then at most one component calls the *)
(* triggerGesture of its manager; a render follows every frame.              *)

DurationOf == [d \in Detectors |-> IF d = "A" THEN BlockDuration ELSE MaxBlockDuration]

StepManagers ==
    \E caller \in Detectors \cup {"nobody"} :
        LET now == clock + 1
            a1 == ManagerFrame(gesture, atom, now, DurationOf["A"])
            a2 == ManagerFrame(gesture, a1, now, DurationOf["B"])
            success == caller # "nobody" /\ TriggerResult(gesture)
            called(d) == IF d # caller THEN "none" ELSE IF success THEN "true" ELSE "false"
        IN  /\ now <= RunMaxTime
            /\ clock' = now
            /\ atom' = IF success THEN TriggerUpdate(a2, now, DurationOf[caller]) ELSE a2
            /\ gesture' = atom'
            /\ currentTime' = [d \in Detectors |-> now]
            /\ out' = [d \in Detectors |->
                          [NoOut EXCEPT !.called = called(d), !.locked = a2.isBlocked]]
            /\ lastEventTime' = IF success THEN now ELSE lastEventTime
            /\ UNCHANGED <<joints, jointTransforms, neutralState, thumbDistance, isNeutral,
                           cfg, track>>
            /\ UNCHANGED provider

SpecManagers == Init /\ [][StepManagers]_vars

\* C35: with managers of different blockDuration on the shared lock,
\* isBlocked goes from true to false only in a frame with
\* now - lastGestureTime >= the blockDuration recorded in the lock by the last
\* successful trigger, and every manager's remainingBlockTime is 0 once the
\* lock is released.
C35_ReleasedWithRecordedDuration ==
    [][IsFrame =>
        /\ (atom.isBlocked /\ ~atom'.isBlocked) =>
                clock' - atom.lastGestureTime >= atom.blockDuration
        /\ ~gesture'.isBlocked =>
                \A d \in Detectors :
                    remainingBlockTime(gesture', currentTime'[d], DurationOf[d]) = 0]_vars

\* C36: in the first gate-passing frame after a reset (window and previous
\* sample null at entry) the window is anchored at the frame's sample and time
\* with currentDirection null and no callback is invoked or attempted; a
\* callback is only invoked in a frame that found a previous sample, so an
\* event needs at least two consecutive gate-passing frames.
C36_NoEventOnBootstrap ==
    [][IsFrame =>
        \A d \in Detectors :
            /\ (/\ GateOpen
                /\ track[d].gestureStartPosition = NullPos
                /\ track[d].previousPosition = NullPos) =>
                    /\ out'[d].fired = "none"
                    /\ out'[d].called = "none"
                    /\ track'[d].gestureStartPosition = MiddleTip(joints')
                    /\ track'[d].gestureStartTime = clock'
                    /\ track'[d].currentDirection = NullDir
            /\ out'[d].fired # "none" =>
                    /\ track[d].previousPosition # NullPos
                    /\ track[d].previousTime < clock']_vars

\* the last frame of a run anchored a fresh window and did nothing else
C36_Witness ==
    \E d \in Detectors :
        /\ out[d].branch = "bootstrap"
        /\ out[d].called = "none"
        /\ track[d].gestureStartPosition = MiddleTip(joints)
        /\ track[d].currentDirection = NullDir
        /\ clock = HookMaxTime

-----------------------------------------------------------------------------
(* The same frames under two time origins: detector A reads the clock of the *)
(* run, which starts at 0, detector B a clock that is ahead by a constant    *)
(* shift (kept as currentTime["B"] - currentTime["A"]).  Each has its own    *)
(* lock; B's lock is A's with lastGestureTime shifted as long as both fired  *)
(* in the same frames, so one lock value is kept, driven by A.               *)

ShiftOf(ct) == ct["B"] - ct["A"]

ShiftTime(t, s) == IF t = NullTime THEN NullTime ELSE t + s

ShiftTrack(t, s) ==
    [t EXCEPT !.previousTime = ShiftTime(@, s), !.gestureStartTime = ShiftTime(@, s)]

InitShift ==
    /\ clock = -1
    /\ atom = [InitialGesture EXCEPT !.neutral = TRUE]
    /\ gesture = atom
    /\ joints = ZeroFrame
    /\ jointTransforms = joints
    /\ neutralState = TRUE
    /\ thumbDistance = ThumbDistanceOf(joints, 0)
    /\ isNeutral = TRUE
    /\ cfg = SmallCfg
    /\ track = [d \in Detectors |-> ResetTrack]
    /\ \E s \in 1..MaxShift : currentTime = [d \in Detectors |-> IF d = "A" THEN -1 ELSE s - 1]
    /\ out = [d \in Detectors |-> NoOut]
    /\ lastEventTime = -1
    /\ ProviderInit

StepShift ==
    \E j \in {f \in Frames : f[3] = joints[3]} :
        LET now == clock + 1
            s == ShiftOf(currentTime)
            a1 == ManagerFrame(atom, atom, now, BlockDuration)
            shifted == [a1 EXCEPT !.lastGestureTime = @ + s]
            ra == SwipeFrame(track["A"], cfg, j, TRUE, now, a1, Directions)
            rb == SwipeFrame(track["B"], cfg, j, TRUE, now + s, shifted, Directions)
            result(r) == [branch |-> r.branch, called |-> r.called, fired |-> r.fired,
                          calls |-> r.calls, locked |-> a1.isBlocked]
        IN  /\ now <= ZigMaxTime
            /\ clock' = now
            /\ joints' = j
            /\ jointTransforms' = j
            /\ track' = [d \in Detectors |-> IF d = "A" THEN ra.track ELSE rb.track]
            /\ out' = [d \in Detectors |-> IF d = "A" THEN result(ra) ELSE result(rb)]
            /\ atom' = IF ra.called = "true" THEN TriggerUpdate(a1, now, BlockDuration) ELSE a1
            /\ gesture' = atom'
            /\ currentTime' = [d \in Detectors |-> IF d = "A" THEN now ELSE now + s]
            /\ lastEventTime' = IF ra.fired # "none" THEN now ELSE lastEventTime
            /\ UNCHANGED <<neutralState, thumbDistance, isNeutral, cfg>>
            /\ UNCHANGED provider

SpecShift == InitShift /\ [][StepShift]_vars

\* C37: the same frames with every timestamp shifted by a constant give the
\* same callbacks in the same frames and the same tracking state up to the
\* shift; a sample or an anchor taken at clock time 0 is treated like any
\* other.
C37_TimeOriginIndependence ==
    [][IsFrame =>
        /\ out'["B"].fired = out'["A"].fired
        /\ track'["B"] = ShiftTrack(track'["A"], ShiftOf(currentTime'))]_vars

\* C38: at every frame boundary gestureStartPosition is null exactly when
\* gestureStartTime is null, previousPosition is null exactly when
\* previousTime is null, currentDirection is non-null only when the window is
\* set, and the window is set exactly when the previous sample is set.
C38_TrackWellFormed ==
    \A d \in Detectors :
        LET t == track[d]
        IN  /\ t.gestureStartPosition = NullPos <=> t.gestureStartTime = NullTime
            /\ t.previousPosition = NullPos <=> t.previousTime = NullTime
            /\ t.currentDirection # NullDir => t.gestureStartPosition # NullPos
            /\ t.gestureStartPosition # NullPos <=> t.previousPosition # NullPos

\* a detector holds a window older than its previous sample with a locked
\* direction
C38_Witness ==
    \E d \in Detectors :
        /\ track[d].currentDirection # NullDir
        /\ track[d].gestureStartTime # NullTime
        /\ track[d].gestureStartTime < track[d].previousTime
        /\ track[d].gestureStartPosition # track[d].previousPosition

====
